---- MODULE Spec2Model ----
(***************************************************************************)
(* httx: the CLI argument parser (src/src/cli-parser.ts), the request      *)
(* executor (src/src/client.ts) and the CLI action that runs one after the *)
(* other (src/bin/cli.ts), as state machines.                              *)
(*                                                                         *)
(* Strings are sequences of one-character strings, so that the regular     *)
(* expressions, trim(), includes('://'), toUpperCase() and JSON.parse of   *)
(* the source act on characters as they do in the program.                 *)
(***************************************************************************)
EXTENDS Integers, Sequences, FiniteSets, TLC

VARIABLES
    \* ---- parseCliArgs (src/src/cli-parser.ts) ----
    args,       \* the tokens args[0..i-1] the loop has consumed
    kinds,      \* per consumed token, what the loop did with it
    method,     \* let method
    url,        \* let url
    options,    \* const options
    pstate,     \* "loop" | "returned" | "threw"
    perror,     \* the Error thrown by parseCliArgs, when pstate = "threw"
    \* ---- HttxClient.request (src/src/client.ts) ----
    config,     \* this.config
    call,       \* the arguments of request: url and options
    net,        \* what the network does with the call
    pc,         \* "idle" | "start" | "fetching" | "done"
    sent,       \* the (url, RequestInit) handed to fetch
    fetches,    \* number of fetch calls issued by this request
    outcome,    \* the value the promise settled with
    clock,      \* performance.now(), in milliseconds
    startTime,  \* const startTime of request
    \* ---- the action of the httx command (src/bin/cli.ts) ----
    flags,      \* the flags of the invocation, once the action has read them
    process,    \* process.exit(code) and what console.error wrote before it
    \* ---- concurrent calls of request on one client (src/src/client.ts) ----
    conc        \* per caller, the call, net, pc, sent, fetches, outcome and
                \* startTime of its request

pvars == <<args, kinds, method, url, options, pstate, perror>>
cvars == <<config, call, net, pc, sent, fetches, outcome, clock, startTime>>
clivars == <<flags, process>>
vars == <<args, kinds, method, url, options, pstate, perror,
          config, call, net, pc, sent, fetches, outcome, clock, startTime,
          flags, process, conc>>

-----------------------------------------------------------------------------
(* Characters and strings *)

\* the pattern's excluded class [:=@]
Special == {":", "=", "@"}

\* the white space String.prototype.trim removes (of the model's alphabet)
WhiteSpace == {" "}

Digits == {"0", "1", "2", "3", "4", "5", "6", "7", "8", "9"}

DigitVal(c) ==
    CASE c = "0" -> 0 [] c = "1" -> 1 [] c = "2" -> 2 [] c = "3" -> 3
      [] c = "4" -> 4 [] c = "5" -> 5 [] c = "6" -> 6 [] c = "7" -> 7
      [] c = "8" -> 8 [] c = "9" -> 9 [] OTHER -> 0

LowerLetters ==
    << "a", "b", "c", "d", "e", "f", "g", "h", "i", "j", "k", "l", "m",
       "n", "o", "p", "q", "r", "s", "t", "u", "v", "w", "x", "y", "z" >>
UpperLetters ==
    << "A", "B", "C", "D", "E", "F", "G", "H", "I", "J", "K", "L", "M",
       "N", "O", "P", "Q", "R", "S", "T", "U", "V", "W", "X", "Y", "Z" >>
Alpha == {LowerLetters[i] : i \in 1..26} \cup {UpperLetters[i] : i \in 1..26}

\* String.prototype.toUpperCase and toLowerCase on one character
UpperChar(c) ==
    IF \E i \in 1..26 : LowerLetters[i] = c
    THEN UpperLetters[CHOOSE i \in 1..26 : LowerLetters[i] = c] ELSE c
LowerChar(c) ==
    IF \E i \in 1..26 : UpperLetters[i] = c
    THEN LowerLetters[CHOOSE i \in 1..26 : UpperLetters[i] = c] ELSE c

toUpperCase(s) == [i \in 1..Len(s) |-> UpperChar(s[i])]
toLowerCase(s) == [i \in 1..Len(s) |-> LowerChar(s[i])]

\* s has t as a substring starting at position i (1-based)
HasAt(s, i, t) ==
    /\ i >= 1
    /\ i + Len(t) - 1 <= Len(s)
    /\ \A j \in 1..Len(t) : s[i + j - 1] = t[j]

\* String.prototype.includes
includes(s, t) == \E i \in 1..(Len(s) + 1) : HasAt(s, i, t)

\* first position of t in s at or after position from, 0 when there is none
IndexFrom(s, t, from) ==
    LET hits == {i \in from..(Len(s) + 1) : HasAt(s, i, t)}
    IN  IF hits = {} THEN 0 ELSE CHOOSE i \in hits : \A j \in hits : i <= j

\* String.prototype.trim
trim(s) ==
    LET keep == {i \in 1..Len(s) : s[i] \notin WhiteSpace}
    IN  IF keep = {} THEN <<>>
        ELSE LET lo == CHOOSE i \in keep : \A j \in keep : i <= j
                 hi == CHOOSE i \in keep : \A j \in keep : i >= j
             IN  SubSeq(s, lo, hi)

-----------------------------------------------------------------------------
(* JavaScript values held in a body object *)

StrVal(s) == [t |-> "string", s |-> s, n |-> 0]
NumVal(n) == [t |-> "number", s |-> <<>>, n |-> n]
BoolVal(b) == [t |-> "boolean", s |-> <<>>, n |-> IF b THEN 1 ELSE 0]
NullVal == [t |-> "null", s |-> <<>>, n |-> 0]

RECURSIVE DecimalValue(_)
DecimalValue(s) ==
    IF s = <<>> THEN 0
    ELSE 10 * DecimalValue(SubSeq(s, 1, Len(s) - 1)) + DigitVal(s[Len(s)])

\* JSON.parse on the model's alphabet (no quotes, brackets, braces, sign or
\* fraction characters): the JSON texts are the integers without a leading
\* zero, true, false and null; every other text throws SyntaxError.
JSONparse(s) ==
    CASE s = <<"t", "r", "u", "e">> -> [ok |-> TRUE, v |-> BoolVal(TRUE)]
      [] s = <<"f", "a", "l", "s", "e">> -> [ok |-> TRUE, v |-> BoolVal(FALSE)]
      [] s = <<"n", "u", "l", "l">> -> [ok |-> TRUE, v |-> NullVal]
      [] /\ s # <<>>
         /\ \A i \in 1..Len(s) : s[i] \in Digits
         /\ (Len(s) > 1 => s[1] # "0") -> [ok |-> TRUE, v |-> NumVal(DecimalValue(s))]
      [] OTHER -> [ok |-> FALSE, v |-> NullVal]

-----------------------------------------------------------------------------
(* JavaScript objects with string keys, as the ordered list of their        *)
(* entries (Object.entries order is insertion order for non-index keys)     *)

HasKey(o, k) == \E i \in 1..Len(o) : o[i][1] = k

\* o[k] = v
ObjSet(o, k, v) ==
    IF HasKey(o, k)
    THEN [i \in 1..Len(o) |-> IF o[i][1] = k THEN <<k, v>> ELSE o[i]]
    ELSE Append(o, <<k, v>>)

\* o[k], for a key o has
ObjGet(o, k) == o[CHOOSE i \in 1..Len(o) : o[i][1] = k][2]

\* FormData.prototype.append
FormDataAppend(f, k, v) == Append(f, <<k, v>>)

\* the body of a request: undefined, a plain object (f: its entries), a
\* FormData (f: its entries), a string (s), a URLSearchParams (f), a Blob (a
\* binary payload), or an object that refers to itself ("cyclic")
BodyUndefined == [t |-> "undefined", f |-> <<>>, s |-> <<>>]
BodyObject(f) == [t |-> "object", f |-> f, s |-> <<>>]
BodyFormData(f) == [t |-> "FormData", f |-> f, s |-> <<>>]
BodyString(s) == [t |-> "string", f |-> <<>>, s |-> s]
BodySearchParams(f) == [t |-> "URLSearchParams", f |-> f, s |-> <<>>]
BodyBlob == [t |-> "Blob", f |-> <<>>, s |-> <<>>]
BodyCyclic == [t |-> "cyclic", f |-> <<>>, s |-> <<>>]

-----------------------------------------------------------------------------
(* new URL(input) and new URL(input, base) of the platform (WHATWG URL), on  *)
(* the model's alphabet: no '#', no '\', no '.', no percent signs.           *)

HttpScheme == <<"h", "t", "t", "p">>
HttpsScheme == <<"h", "t", "t", "p", "s">>
SpecialSchemes == {HttpScheme, HttpsScheme}

\* host code points the URL parser rejects
ForbiddenHost == {" ", ":", "/", "?", "@", "<", ">", "[", "]", "^", "|"}

InvalidURL ==
    [ok |-> FALSE, scheme |-> <<>>, userinfo |-> <<>>, host |-> <<>>,
     port |-> <<>>, path |-> <<>>, search |-> <<>>, hasSearch |-> FALSE]

\* length of the scheme of s (the text before the first ':'), 0 when s does
\* not start with a scheme
SchemeLen(s) ==
    LET c == IndexFrom(s, <<":">>, 1)
    IN  IF /\ c >= 2
           /\ s[1] \in Alpha
           /\ \A i \in 1..(c - 1) : s[i] \in Alpha \cup Digits \cup {"+", "-"}
        THEN c - 1 ELSE 0

\* number of '/' at the start of s
RECURSIVE LeadingSlashes(_)
LeadingSlashes(s) ==
    IF s # <<>> /\ s[1] = "/" THEN 1 + LeadingSlashes(Tail(s)) ELSE 0

\* the default port of a special scheme is not serialized
DefaultPort(scheme) ==
    IF scheme = HttpScheme THEN <<"8", "0">> ELSE <<"4", "4", "3">>

\* path and query of a URL from the text that follows the authority
PathAndQuery(u, rest) ==
    LET q == IndexFrom(rest, <<"?">>, 1)
        p == IF q = 0 THEN rest ELSE SubSeq(rest, 1, q - 1)
    IN  [u EXCEPT !.path = IF p = <<>> THEN <<"/">> ELSE p,
                  !.search = IF q = 0 THEN <<>> ELSE SubSeq(rest, q + 1, Len(rest)),
                  !.hasSearch = (q # 0 /\ q < Len(rest))]

\* first position of s that holds a character of cs, Len(s) + 1 when none
FirstOf(s, cs) ==
    LET hits == {i \in 1..Len(s) : s[i] \in cs}
    IN  IF hits = {} THEN Len(s) + 1 ELSE CHOOSE i \in hits : \A j \in hits : i <= j

\* last position of s that holds a character of cs, 0 when none
LastOf(s, cs) ==
    LET hits == {i \in 1..Len(s) : s[i] \in cs}
    IN  IF hits = {} THEN 0 ELSE CHOOSE i \in hits : \A j \in hits : i >= j

\* the host and port checks of a special URL, then its path and query
HostPort(scheme, userinfo, host, port, rest) ==
    IF \/ host = <<>>
       \/ \E i \in 1..Len(host) : host[i] \in ForbiddenHost
       \/ \E i \in 1..Len(port) : port[i] \notin Digits
       \/ (port # <<>> /\ DecimalValue(port) > 65535)
    THEN InvalidURL
    ELSE PathAndQuery(
           [ok |-> TRUE, scheme |-> scheme, userinfo |-> userinfo, host |-> host,
            port |-> IF port = DefaultPort(scheme) THEN <<>> ELSE port,
            path |-> <<>>, search |-> <<>>, hasSearch |-> FALSE],
           rest)

\* host[:port], split at the first ':' (position c, 0 when there is none)
SplitHostPort(scheme, userinfo, hostport, c, rest) ==
    HostPort(scheme, userinfo,
             IF c = 0 THEN hostport ELSE SubSeq(hostport, 1, c - 1),
             IF c = 0 THEN <<>> ELSE SubSeq(hostport, c + 1, Len(hostport)),
             rest)

\* [userinfo@]host[:port], split at the last '@' (position a, 0 when none)
SplitUserinfo(scheme, auth, a, rest) ==
    SplitHostPort(scheme, IF a = 0 THEN <<>> ELSE SubSeq(auth, 1, a - 1),
                  SubSeq(auth, a + 1, Len(auth)),
                  IndexFrom(SubSeq(auth, a + 1, Len(auth)), <<":">>, 1), rest)

\* the authority is s up to position e, the first '/' or '?'
SplitAuthority(scheme, s, e) ==
    SplitUserinfo(scheme, SubSeq(s, 1, e - 1), LastOf(SubSeq(s, 1, e - 1), {"@"}),
                  SubSeq(s, e, Len(s)))

\* authority [userinfo@]host[:port] and what follows it, for a special scheme
ParseAuthority(scheme, s) == SplitAuthority(scheme, s, FirstOf(s, {"/", "?"}))

\* new URL(s): s must be absolute
NewURL(s) ==
    LET n == SchemeLen(s)
        scheme == SubSeq(s, 1, n)
        after == SubSeq(s, n + 2, Len(s))
    IN  IF n = 0 THEN InvalidURL
        ELSE IF scheme \in SpecialSchemes
        THEN ParseAuthority(scheme, SubSeq(after, LeadingSlashes(after) + 1, Len(after)))
        ELSE \* a non-special scheme: the rest is kept as an opaque path
             [ok |-> TRUE, scheme |-> scheme, userinfo |-> <<>>, host |-> <<>>,
              port |-> <<>>, path |-> after, search |-> <<>>, hasSearch |-> FALSE]

\* the directory of a path: the path up to and including its last '/'
DirName(p) ==
    LET sl == {i \in 1..Len(p) : p[i] = "/"}
    IN  IF sl = {} THEN <<"/">>
        ELSE SubSeq(p, 1, CHOOSE i \in sl : \A j \in sl : i >= j)

\* new URL(s, base), base a parsed special URL
NewURLWithBase(s, base) ==
    CASE SchemeLen(s) > 0 -> NewURL(s)
      [] s = <<>> -> base
      [] LeadingSlashes(s) >= 2 ->
            ParseAuthority(base.scheme, SubSeq(s, LeadingSlashes(s) + 1, Len(s)))
      [] LeadingSlashes(s) = 1 -> PathAndQuery(base, s)
      [] s[1] = "?" -> PathAndQuery(base, base.path \o s)
      [] OTHER -> PathAndQuery(base, DirName(base.path) \o s)

\* URL.prototype.toString
URLtoString(u) ==
    IF u.scheme \in SpecialSchemes
    THEN u.scheme \o <<":", "/", "/">>
         \o (IF u.userinfo = <<>> THEN <<>> ELSE u.userinfo \o <<"@">>)
         \o u.host
         \o (IF u.port = <<>> THEN <<>> ELSE <<":">> \o u.port)
         \o u.path
         \o (IF u.hasSearch THEN <<"?">> \o u.search ELSE <<>>)
    ELSE u.scheme \o <<":">> \o u.path

\* application/x-www-form-urlencoded serialization of one code point
\* (URLSearchParams): letters and digits stay, a space becomes '+', the
\* others are percent-encoded
FormEncodeChar(c) ==
    CASE c \in Alpha \cup Digits \cup {"-", "_", "*"} -> <<c>>
      [] c = " " -> <<"+">>
      [] c = "=" -> <<"%", "3", "D">>
      [] c = ":" -> <<"%", "3", "A">>
      [] c = "@" -> <<"%", "4", "0">>
      [] c = "/" -> <<"%", "2", "F">>
      [] c = "?" -> <<"%", "3", "F">>
      [] OTHER -> <<"%", "x", "x">>

RECURSIVE FormEncode(_)
FormEncode(s) ==
    IF s = <<>> THEN <<>> ELSE FormEncodeChar(s[1]) \o FormEncode(Tail(s))

\* URLSearchParams.prototype.append on the URL's query
SearchParamsAppend(u, k, v) ==
    [u EXCEPT !.search = (IF u.hasSearch THEN u.search \o <<"&">> ELSE <<>>)
                         \o FormEncode(k) \o <<"=">> \o FormEncode(v),
              !.hasSearch = TRUE]

-----------------------------------------------------------------------------
(* src/src/cli-parser.ts *)

\* HTTP_METHODS of ./types, which the parser imports
HTTP_METHODS ==
    { <<"G", "E", "T">>, <<"P", "O", "S", "T">>, <<"P", "U", "T">>,
      <<"D", "E", "L", "E", "T", "E">>, <<"P", "A", "T", "C", "H">>,
      <<"H", "E", "A", "D">>, <<"O", "P", "T", "I", "O", "N", "S">> }

GET == <<"G", "E", "T">>

\* REQUEST_PATTERNS in the order Object.entries enumerates it; each pattern
\* is /^([^:=@]+)OP(.+)$/ and is given by its operator OP
REQUEST_PATTERNS ==
    << [type |-> "HEADER", op |-> <<":">>],
       [type |-> "DATA", op |-> <<"=">>],
       [type |-> "RAW_JSON", op |-> <<":", "=">>],
       [type |-> "FILE_UPLOAD", op |-> <<"@">>],
       [type |-> "QUERY", op |-> <<"=", "=">>] >>

\* the longest prefix of arg without ':', '=', '@': what ([^:=@]+) can take.
\* A shorter key is followed by a character of the class, never by OP.
RECURSIVE KeyLen(_)
KeyLen(arg) ==
    IF arg = <<>> \/ arg[1] \in Special THEN 0 ELSE 1 + KeyLen(Tail(arg))

\* arg.match(/^([^:=@]+)OP(.+)$/): the groups, or no match
Match(arg, op) ==
    LET k == KeyLen(arg)
    IN  IF k >= 1 /\ HasAt(arg, k + 1, op) /\ Len(arg) >= k + Len(op) + 1
        THEN [matched |-> TRUE, key |-> SubSeq(arg, 1, k),
              value |-> SubSeq(arg, k + Len(op) + 1, Len(arg))]
        ELSE [matched |-> FALSE, key |-> <<>>, value |-> <<>>]

\* the for .. of loop over REQUEST_PATTERNS: the index of the first pattern
\* that matches arg, 0 when none does
FirstMatch(arg) ==
    LET hits == {j \in 1..Len(REQUEST_PATTERNS) : Match(arg, REQUEST_PATTERNS[j].op).matched}
    IN  IF hits = {} THEN 0 ELSE CHOOSE j \in hits : \A h \in hits : j <= h

isHttpMethod(m) == toUpperCase(m) \in HTTP_METHODS

\* fault variant of MethodOf: the method is kept as typed
MethodOf_AsTyped(arg) == arg

\* method = arg.toUpperCase() as HttpMethod
MethodOf(arg) == toUpperCase(arg)

\* arg.includes('://') ? arg : `http://${arg}`
InferScheme(arg) ==
    IF includes(arg, <<":", "/", "/">>) THEN arg
    ELSE <<"h", "t", "t", "p", ":", "/", "/">> \o arg

\* case 'HEADER'
CaseHeader(o, key, value) ==
    [o EXCEPT !.headers = ObjSet(o.headers, trim(key), StrVal(trim(value)))]

\* case 'DATA'
CaseData(o, key, value) ==
    LET b == IF o.body.t = "undefined" THEN BodyObject(<<>>) ELSE o.body
    IN  [o EXCEPT !.body =
            IF b.t = "FormData"
            THEN BodyFormData(FormDataAppend(b.f, trim(key), StrVal(trim(value))))
            ELSE BodyObject(ObjSet(b.f, trim(key), StrVal(trim(value))))]

\* case 'RAW_JSON'
CaseRawJson(o, key, value) ==
    LET b == IF o.body.t # "object" THEN BodyObject(<<>>) ELSE o.body
        j == JSONparse(trim(value))
    IN  [o EXCEPT !.body = BodyObject(ObjSet(b.f, trim(key),
                                IF j.ok THEN j.v ELSE StrVal(trim(value)))),
                  !.json = TRUE]

\* case 'QUERY'
CaseQuery(o, key, value) ==
    [o EXCEPT !.query = ObjSet(o.query, trim(key), trim(value))]

\* fault variant of CaseFileUpload: every file token starts a new FormData
CaseFileUpload_Fresh(o, key, value) ==
    [o EXCEPT !.body = BodyFormData(FormDataAppend(<<>>, trim(key), StrVal(trim(value)))),
              !.multipart = TRUE]

\* case 'FILE_UPLOAD'
CaseFileUpload(o, key, value) ==
    LET fresh == o.body.t # "FormData"
        f == IF fresh THEN <<>> ELSE o.body.f
    IN  [o EXCEPT !.body = BodyFormData(FormDataAppend(f, trim(key), StrVal(trim(value)))),
                  !.multipart = IF fresh THEN TRUE ELSE o.multipart]

\* the switch on the type of the pattern that matched
ApplyItem(o, type, key, value) ==
    CASE type = "HEADER" -> CaseHeader(o, key, value)
      [] type = "DATA" -> CaseData(o, key, value)
      [] type = "RAW_JSON" -> CaseRawJson(o, key, value)
      [] type = "QUERY" -> CaseQuery(o, key, value)
      [] type = "FILE_UPLOAD" -> CaseFileUpload(o, key, value)

\* the options parseCliArgs starts from
InitialOptions ==
    [method |-> GET, headers |-> <<>>, query |-> <<>>, body |-> BodyUndefined,
     json |-> FALSE, multipart |-> FALSE]

\* ---- the argument lists the parser is run on ----

\* longest argument list explored
MaxArgs == 4

TokGet == <<"g", "e", "t">>
TokPOST == <<"P", "O", "S", "T">>
TokPut == <<"P", "u", "t">>
TokHost == <<"h">>
TokHostPath == <<"h", "/", "a">>
TokPortPath == <<":", "3", "/", "a">>
TokHttpUrl == <<"h", "t", "t", "p", ":", "/", "/", "h", "/", "a">>
TokHttpsUrlQ == <<"h", "t", "t", "p", "s", ":", "/", "/", "h", "/", "a", "?", "x", "=", "0">>

MethodTokens == {TokGet, TokPOST, TokPut}
UrlTokens == {TokHost, TokHostPath, TokPortPath, TokHttpUrl, TokHttpsUrlQ}

TokData == <<"a", "=", "1">>
TokDataSp == <<"b", "=", " ", "2">>
TokRawNum == <<"a", ":", "=", "1">>
TokRawBool == <<"b", ":", "=", "t", "r", "u", "e">>
TokRawBad == <<"c", ":", "=", "x">>
TokQuery1 == <<"q", "=", "=", "1">>
TokQuery2 == <<"q", "=", "=", "2">>
TokFileA == <<"p", "@", "a">>
TokFileB == <<"p", "@", "b">>
TokHeader == <<"X", ":", "3">>
TokWord == <<"z", "z">>
TokNested == <<"u", "[", "n", "]", "=", "1">>

ItemTokens ==
    {TokData, TokDataSp, TokRawNum, TokRawBool, TokRawBad, TokQuery1, TokQuery2,
     TokFileA, TokFileB, TokHeader, TokWord, TokNested}

\* bin/cli.ts hands parseCliArgs [method, url, ...items].filter(Boolean):
\* no token is empty. The first token is a method or a URL, the token after
\* a method is a URL or an item, the others are items.
TokensAt(i, u) ==
    IF i = 0 THEN MethodTokens \cup UrlTokens
    ELSE IF i = 1 /\ u = <<>> THEN UrlTokens \cup {TokData}
    ELSE ItemTokens

NoError == [message |-> "", url |-> <<>>]

InitParser ==
    /\ args = <<>>
    /\ kinds = <<>>
    /\ method = GET
    /\ url = <<>>
    /\ options = InitialOptions
    /\ pstate = "loop"
    /\ perror = NoError

\* one iteration of the for loop, on the token arg = args[i]
LoopBody(arg) ==
    LET i == Len(args)
        j == FirstMatch(arg)
        m == Match(arg, REQUEST_PATTERNS[j].op)
    IN  /\ args' = Append(args, arg)
        /\ IF arg = <<>>
           THEN /\ kinds' = Append(kinds, "skipped")
                /\ UNCHANGED <<method, url, options>>
           ELSE IF i = 0 /\ isHttpMethod(toUpperCase(arg))
           THEN /\ method' = MethodOf(arg)
                /\ options' = [options EXCEPT !.method = MethodOf(arg)]
                /\ kinds' = Append(kinds, "method")
                /\ url' = url
           ELSE IF i = 0 \/ (i = 1 /\ url = <<>>)
           THEN /\ url' = InferScheme(arg)
                /\ kinds' = Append(kinds, "url")
                /\ UNCHANGED <<method, options>>
           ELSE IF j = 0
           THEN /\ kinds' = Append(kinds, "unmatched")
                /\ UNCHANGED <<method, url, options>>
           ELSE /\ options' = ApplyItem(options, REQUEST_PATTERNS[j].type, m.key, m.value)
                /\ kinds' = Append(kinds, REQUEST_PATTERNS[j].type)
                /\ UNCHANGED <<method, url>>

ParseArg ==
    /\ pstate = "loop"
    /\ Len(args) < MaxArgs
    /\ \E arg \in TokensAt(Len(args), url) : LoopBody(arg)
    /\ UNCHANGED <<pstate, perror>>

\* fault variant of ParseEnd: the check of an empty url is left out
ParseEnd_NoUrlCheck ==
    /\ pstate = "loop"
    /\ IF ~NewURL(url).ok
       THEN /\ pstate' = "threw"
            /\ perror' = [message |-> "Invalid URL: ", url |-> url]
       ELSE /\ pstate' = "returned"
            /\ perror' = perror
    /\ UNCHANGED <<args, kinds, method, url, options>>

\* after the loop: the URL checks and the return
ParseEnd ==
    /\ pstate = "loop"
    /\ IF url = <<>>
       THEN /\ pstate' = "threw"
            /\ perror' = [message |-> "No URL provided", url |-> <<>>]
       ELSE IF ~NewURL(url).ok
       THEN /\ pstate' = "threw"
            /\ perror' = [message |-> "Invalid URL: ", url |-> url]
       ELSE /\ pstate' = "returned"
            /\ perror' = perror
    /\ UNCHANGED <<args, kinds, method, url, options>>

-----------------------------------------------------------------------------
(* The platform's Headers, JSON.stringify and String() *)

RECURSIVE DecimalString(_)
\* String(n) for an integer n >= 0
DecimalString(n) ==
    LET d == <<"0", "1", "2", "3", "4", "5", "6", "7", "8", "9">>[(n % 10) + 1]
    IN  IF n < 10 THEN <<d>> ELSE DecimalString(n \div 10) \o <<d>>

\* String(v)
ValueToString(v) ==
    CASE v.t = "string" -> v.s
      [] v.t = "number" -> DecimalString(v.n)
      [] v.t = "boolean" -> IF v.n = 1 THEN <<"t", "r", "u", "e">>
                            ELSE <<"f", "a", "l", "s", "e">>
      [] v.t = "null" -> <<"n", "u", "l", "l">>

\* JSON.stringify of one value
ValueToJSON(v) ==
    IF v.t = "string" THEN <<"\"">> \o v.s \o <<"\"">> ELSE ValueToString(v)

RECURSIVE EntriesToJSON(_)
EntriesToJSON(f) ==
    IF f = <<>> THEN <<>>
    ELSE <<"\"">> \o f[1][1] \o <<"\"", ":">> \o ValueToJSON(f[1][2])
         \o (IF Len(f) > 1 THEN <<",">> ELSE <<>>) \o EntriesToJSON(Tail(f))

\* JSON.stringify(body), for a body that is not cyclic: a FormData, a
\* URLSearchParams and a Blob have no own enumerable properties
JSONstringify(b) ==
    CASE b.t = "object" -> <<"{">> \o EntriesToJSON(b.f) \o <<"}">>
      [] b.t = "string" -> <<"\"">> \o b.s \o <<"\"">>
      [] OTHER -> <<"{", "}">>

RECURSIVE EntriesToForm(_)
\* new URLSearchParams(record).toString(), the values being String(value)
EntriesToForm(f) ==
    IF f = <<>> THEN <<>>
    ELSE FormEncode(f[1][1]) \o <<"=">> \o FormEncode(ValueToString(f[1][2]))
         \o (IF Len(f) > 1 THEN <<"&">> ELSE <<>>) \o EntriesToForm(Tail(f))

\* a header name is a non-empty HTTP token
ValidHeaderName(n) ==
    /\ n # <<>>
    /\ \A i \in 1..Len(n) : n[i] \in Alpha \cup Digits \cup {"-", "_"}

\* Headers.prototype.set / append / delete: names are byte-lowercased
HeadersSet(h, name, value) == ObjSet(h, toLowerCase(name), value)

HeadersAppend(h, name, value) ==
    LET k == toLowerCase(name)
    IN  IF HasKey(h, k) THEN ObjSet(h, k, ObjGet(h, k) \o <<",", " ">> \o value)
        ELSE Append(h, <<k, value>>)

RECURSIVE HeadersDelete(_, _)
HeadersDelete(h, name) ==
    IF h = <<>> THEN <<>>
    ELSE IF h[1][1] = toLowerCase(name) THEN HeadersDelete(Tail(h), name)
    ELSE <<h[1]>> \o HeadersDelete(Tail(h), name)

HeadersHas(h, name) == HasKey(h, toLowerCase(name))
HeadersGet(h, name) == ObjGet(h, toLowerCase(name))

RECURSIVE FillHeaders(_, _)
FillHeaders(h, init) ==
    IF init = <<>> THEN h
    ELSE FillHeaders(HeadersAppend(h, init[1][1], ValueToString(init[1][2])), Tail(init))

\* new Headers(init), init a record of name -> value; throws TypeError on a
\* name that is no token
NewHeaders(init) ==
    IF \A i \in 1..Len(init) : ValidHeaderName(init[i][1])
    THEN [ok |-> TRUE, h |-> FillHeaders(<<>>, init)]
    ELSE [ok |-> FALSE, h |-> <<>>]

RECURSIVE SetAll(_, _)
\* custom.forEach((value, key) => headers.set(key, value))
SetAll(h, custom) ==
    IF custom = <<>> THEN h
    ELSE SetAll(HeadersSet(h, custom[1][1], custom[1][2]), Tail(custom))

ContentType == <<"C", "o", "n", "t", "e", "n", "t", "-", "T", "y", "p", "e">>
Accept == <<"A", "c", "c", "e", "p", "t">>
ApplicationJson == <<"a", "p", "p", "l", "i", "c", "a", "t", "i", "o", "n", "/", "j", "s", "o", "n">>
FormUrlencoded == 
    <<"a", "p", "p", "l", "i", "c", "a", "t", "i", "o", "n", "/", "x", "-", "w", "w", "w", "-", "f", "o", "r", "m", "-", "u", "r", "l", "e", "n", "c", "o", "d", "e", "d">>

-----------------------------------------------------------------------------
(* src/src/client.ts *)

\* timeout: 30000 of the constructor's defaults
DefaultTimeout == 30000

Given(v) == [given |-> TRUE, v |-> v]
Absent(v) == [given |-> FALSE, v |-> v]

\* constructor: { verbose: false, defaultHeaders: {}, baseUrl: '',
\* timeout: 30000, ...config }. A key config has replaces the default, also
\* when its value is undefined; timeout 0 stands for undefined and for 0
\* (request reads it only as a truth value or a positive number).
Constructor(partial) ==
    [defaultHeaders |-> IF partial.defaultHeaders.given THEN partial.defaultHeaders.v ELSE <<>>,
     baseUrl |-> IF partial.baseUrl.given THEN partial.baseUrl.v ELSE <<>>,
     timeout |-> IF partial.timeout.given THEN partial.timeout.v ELSE DefaultTimeout]

\* errors: what the catch clause passes to err()
\* fault variant of Timings: the duration is taken from end to start
Timings_Reversed(start, end) == [start |-> start, end |-> end, duration |-> start - end]

\* timings: { start: startTime, end: endTime, duration: endTime - startTime }
Timings(start, end) == [start |-> start, end |-> end, duration |-> end - start]

NoValue == [status |-> 0, data |-> "none", timings |-> Timings(0, 0)]
ErrorValue(name, message) ==
    [name |-> name, message |-> message, timeout |-> 0, method |-> <<>>, url |-> <<>>]
NoErrorValue == ErrorValue("", "")

\* neverthrow's ok(value) and err(error), as what the promise resolves to
ok(value) == [tag |-> "Ok", value |-> value, error |-> NoErrorValue]
err(error) == [tag |-> "Err", value |-> NoValue, error |-> error]
Pending == [tag |-> "pending", value |-> NoValue, error |-> NoErrorValue]

\* fault variant of Catch: what is no Error instance is thrown again
Catch_ErrorsOnly(thrown) ==
    IF thrown.isError THEN err(ErrorValue(thrown.name, thrown.message))
    ELSE [tag |-> "rejected", value |-> NoValue, error |-> ErrorValue("", thrown.message)]

\* catch (error) { return err(error instanceof Error ? error : new Error(String(error))) }
\* thrown: [isError, name, message]
Catch(thrown) ==
    err(IF thrown.isError THEN ErrorValue(thrown.name, thrown.message)
        ELSE ErrorValue("Error", thrown.message))

Throw(name, message) == [isError |-> TRUE, name |-> name, message |-> message]
ThrowValue(message) == [isError |-> FALSE, name |-> "", message |-> message]

RECURSIVE AppendQuery(_, _)
\* Object.entries(query).forEach(([key, value]) => finalUrl.searchParams.append(key, value))
AppendQuery(u, query) ==
    IF query = <<>> THEN u
    ELSE AppendQuery(SearchParamsAppend(u, query[1][1], query[1][2]), Tail(query))

\* the query loop and return finalUrl.toString(), for the URL new URL gave
FinishUrl(final, query) ==
    IF ~final.ok THEN [ok |-> FALSE, s |-> <<>>]
    ELSE [ok |-> TRUE,
          s |-> URLtoString(IF query.given THEN AppendQuery(final, query.v) ELSE final)]

\* new URL(url, baseUrl), baseUrl being new URL(this.config.baseUrl)
ResolveAgainst(base, u, query) ==
    IF ~base.ok THEN [ok |-> FALSE, s |-> <<>>]
    ELSE FinishUrl(NewURLWithBase(u, base), query)

\* buildUrl(url, query): the final URL string, or the TypeError of new URL
buildUrl(cfg, u, query) ==
    IF cfg.baseUrl # <<>> THEN ResolveAgainst(NewURL(cfg.baseUrl), u, query)
    ELSE FinishUrl(NewURL(u), query)

\* fault variant of ModeHeaders: form is tested before json
ModeHeaders_FormFirst(h, o) ==
    IF o.form THEN HeadersSet(h, ContentType, FormUrlencoded)
    ELSE IF o.json
    THEN HeadersSet(HeadersSet(h, ContentType, ApplicationJson), Accept, ApplicationJson)
    ELSE IF o.multipart THEN HeadersDelete(h, ContentType)
    ELSE h

\* the if / else if chain of buildHeaders on the content mode
ModeHeaders(h, o) ==
    IF o.json
    THEN HeadersSet(HeadersSet(h, ContentType, ApplicationJson), Accept, ApplicationJson)
    ELSE IF o.form THEN HeadersSet(h, ContentType, FormUrlencoded)
    ELSE IF o.multipart THEN HeadersDelete(h, ContentType)
    ELSE h

\* the body of buildHeaders, given new Headers(this.config.defaultHeaders)
\* and new Headers(options.headers)
MergeHeaders(defaults, custom, o) ==
    IF ~defaults.ok \/ (o.headers.given /\ ~custom.ok)
    THEN [ok |-> FALSE, h |-> <<>>]
    ELSE [ok |-> TRUE,
          h |-> ModeHeaders(IF o.headers.given THEN SetAll(defaults.h, custom.h)
                            ELSE defaults.h, o)]

\* buildHeaders(options)
buildHeaders(cfg, o) ==
    MergeHeaders(NewHeaders(cfg.defaultHeaders), NewHeaders(o.headers.v), o)

\* !options.body
Falsy(b) == b.t = "undefined" \/ (b.t = "string" /\ b.s = <<>>)

\* typeof options.body === 'object'
IsObject(b) == b.t \in {"object", "FormData", "URLSearchParams", "Blob", "cyclic"}

\* the own enumerable entries of the body, as Object.entries gives them
BodyEntries(b) ==
    CASE b.t = "object" -> b.f
      [] b.t = "cyclic" -> << <<<<"s", "e", "l", "f">>,
                               StrVal(<<"[", "o", "b", "j", "e", "c", "t", " ",
                                        "O", "b", "j", "e", "c", "t", "]">>)>> >>
      [] OTHER -> <<>>

\* buildBody(options): the BodyInit, or what it throws
buildBody(o) ==
    LET b == o.body
    IN  IF Falsy(b) THEN [ok |-> TRUE, b |-> BodyUndefined, thrown |-> Throw("", "")]
        ELSE IF o.json
        THEN IF b.t = "cyclic"
             THEN [ok |-> FALSE, b |-> BodyUndefined,
                   thrown |-> Throw("TypeError", "cyclic structure")]
             ELSE [ok |-> TRUE, b |-> BodyString(JSONstringify(b)), thrown |-> Throw("", "")]
        ELSE IF o.form /\ IsObject(b) /\ b.t \notin {"FormData", "URLSearchParams"}
        THEN [ok |-> TRUE, b |-> BodyString(EntriesToForm(BodyEntries(b))),
              thrown |-> Throw("", "")]
        ELSE IF b.t \in {"FormData", "URLSearchParams", "string"}
        THEN [ok |-> TRUE, b |-> b, thrown |-> Throw("", "")]
        ELSE [ok |-> FALSE, b |-> BodyUndefined, thrown |-> Throw("Error", "Invalid body type")]

\* options.timeout || this.config.timeout
EffectiveTimeout(cfg, o) == IF o.timeout # 0 THEN o.timeout ELSE cfg.timeout

\* fault variant of Signal: the timeout signal stands before the caller's
Signal_TimeoutFirst(cfg, o) ==
    IF EffectiveTimeout(cfg, o) # 0 THEN "timeout"
    ELSE IF o.signal THEN "caller"
    ELSE "never"

\* signal: options.signal || timeoutSignal || controller.signal
Signal(cfg, o) ==
    IF o.signal THEN "caller"
    ELSE IF EffectiveTimeout(cfg, o) # 0 THEN "timeout"
    ELSE "never"

NothingSent ==
    [url |-> <<>>, method |-> <<>>, headers |-> <<>>, body |-> BodyUndefined,
     signal |-> "never", timeout |-> 0]

\* fault variant of RequestInit: a body that cannot be encoded is left out
\* and the request is sent without it
RequestInit_IgnoresBodyError(cfg, o, finalUrl, headers, body) ==
    IF ~finalUrl.ok
    THEN [ok |-> FALSE, init |-> NothingSent, thrown |-> Throw("TypeError", "Invalid URL")]
    ELSE IF ~headers.ok
    THEN [ok |-> FALSE, init |-> NothingSent,
          thrown |-> Throw("TypeError", "Invalid header name")]
    ELSE [ok |-> TRUE, thrown |-> Throw("", ""),
          init |-> [url |-> finalUrl.s, method |-> o.method, headers |-> headers.h,
                    body |-> IF body.ok THEN body.b ELSE BodyUndefined,
                    signal |-> Signal(cfg, o), timeout |-> EffectiveTimeout(cfg, o)]]

\* const requestInit = { ...options, headers, signal, body }, from the
\* results of buildUrl, buildHeaders and buildBody: the first that threw
\* ends the try block
RequestInit(cfg, o, finalUrl, headers, body) ==
    IF ~finalUrl.ok
    THEN [ok |-> FALSE, init |-> NothingSent, thrown |-> Throw("TypeError", "Invalid URL")]
    ELSE IF ~headers.ok
    THEN [ok |-> FALSE, init |-> NothingSent,
          thrown |-> Throw("TypeError", "Invalid header name")]
    ELSE IF ~body.ok
    THEN [ok |-> FALSE, init |-> NothingSent, thrown |-> body.thrown]
    ELSE [ok |-> TRUE, thrown |-> Throw("", ""),
          init |-> [url |-> finalUrl.s, method |-> o.method, headers |-> headers.h,
                    body |-> body.b, signal |-> Signal(cfg, o),
                    timeout |-> EffectiveTimeout(cfg, o)]]

\* the try block up to the fetch call: [ok, init] or [~ok, thrown]
BuildRequest(cfg, u, o) ==
    RequestInit(cfg, o, buildUrl(cfg, u, o.query), buildHeaders(cfg, o), buildBody(o))

\* parseResponse(response): the content type picks json(), text() or blob();
\* json() rejects with a SyntaxError when the body is no JSON text
parseResponse(r) ==
    IF r.ctype = "application/json"
    THEN IF r.wellFormed THEN [ok |-> TRUE, data |-> "json"] ELSE [ok |-> FALSE, data |-> "none"]
    ELSE IF r.ctype = "text/plain" THEN [ok |-> TRUE, data |-> "text"]
    ELSE [ok |-> TRUE, data |-> "blob"]

\* the HttxResponse built from the response and its parsed body
Envelope(r, d, t) == [status |-> r.status, data |-> d.data, timings |-> t]

\* fault variant of ResponseOutcome: a status of 400 and above is an error
ResponseOutcome_ThrowOnStatus(r, d, t) ==
    IF r.status >= 400 THEN err(ErrorValue("Error", "Request failed"))
    ELSE IF d.ok THEN ok(Envelope(r, d, t))
    ELSE err(ErrorValue("SyntaxError", "Failed to parse JSON"))

\* what request returns once fetch has resolved with response r: ok(result),
\* or the catch clause's err when parseResponse threw
ResponseOutcome(r, d, t) ==
    IF d.ok THEN ok(Envelope(r, d, t))
    ELSE Catch(Throw("SyntaxError", "Failed to parse JSON"))

\* ---- the clients and the calls request is run on ----

\* a per-request timeout in milliseconds (spec.md scenario 3)
ShortTimeout == 50

\* the most the clock advances between the call of request and the parsed
\* response, in milliseconds
MaxElapsed == 1

UrlAbsolute == <<"h", "t", "t", "p", ":", "/", "/", "h", "/", "a">>
UrlRelative == <<"u">>
UrlRooted == <<"/", "u">>
BaseUrl == <<"h", "t", "t", "p", "s", ":", "/", "/", "h", "/", "v">>
HeaderX == <<"X">>
One == StrVal(<<"1">>)
Three == StrVal(<<"3">>)

PartialConfigs ==
    [defaultHeaders : {Absent(<<>>), Given(<< <<ContentType, One>>, <<HeaderX, One>> >>)},
     baseUrl : {Absent(<<>>), Given(BaseUrl)},
     timeout : {Absent(0), Given(0)}]

Bodies ==
    {BodyUndefined, BodyObject(<< <<<<"a">>, One>> >>),
     BodyFormData(<< <<<<"p">>, StrVal(<<"a">>)>> >>),
     BodyString(<<"s">>), BodyBlob, BodyCyclic}

\* retry: the caller passes a retry option or not; request copies it into
\* the RequestInit with ...options and reads it nowhere
RequestOptionsSet ==
    [method : {<<"P", "O", "S", "T">>},
     headers : {Absent(<<>>), Given(<< <<HeaderX, Three>> >>),
                Given(<< <<toLowerCase(ContentType), Three>>, <<Accept, Three>>,
                         <<HeaderX, NullVal>> >>)},
     query : {Absent(<<>>)},
     body : Bodies,
     json : BOOLEAN, form : BOOLEAN, multipart : BOOLEAN,
     timeout : {0, ShortTimeout},
     signal : BOOLEAN,
     retry : BOOLEAN]

Queries == {Absent(<<>>), Given(<< <<<<"q">>, <<"1">>>> >>)}

\* request(url, options): the relative URLs are called without a query
Calls ==
    {[url |-> c[1], options |-> [c[3] EXCEPT !.query = c[2]]] :
        c \in ({UrlAbsolute} \X Queries \X RequestOptionsSet)
               \cup ({UrlRelative, UrlRooted} \X {Absent(<<>>)} \X RequestOptionsSet)}

Statuses == {200, 404, 500}

\* the responses of the network: every status with a JSON body, the other
\* content types, and JSON content types whose body is no JSON text
Responses ==
    [status : Statuses, ctype : {"application/json"}, wellFormed : {TRUE}]
    \cup [status : {200}, ctype : {"text/plain", "image/png"}, wellFormed : {TRUE}]
    \cup [status : {200, 500}, ctype : {"application/json"}, wellFormed : {FALSE}]
NoResponse == [status |-> 0, ctype |-> "", wellFormed |-> FALSE]

InitClient ==
    /\ config \in {Constructor(p) : p \in PartialConfigs}
    /\ call = [url |-> <<>>, options |-> CHOOSE o \in RequestOptionsSet : TRUE]
    /\ net \in [kind : {"response", "failure", "hang"}, response : {NoResponse}]
    /\ pc = "idle"
    /\ sent = NothingSent
    /\ fetches = 0
    /\ outcome = Pending
    /\ clock = 0
    /\ startTime = 0

\* request(url, options), up to the await of fetch
Request ==
    /\ pc = "idle"
    /\ \E c \in Calls : \E r \in {BuildRequest(config, c.url, c.options)} :
            /\ call' = c
            /\ IF r.ok
               THEN /\ pc' = "fetching"
                    /\ sent' = r.init
                    /\ fetches' = fetches + 1
                    /\ outcome' = outcome
               ELSE /\ pc' = "done"
                    /\ outcome' = Catch(r.thrown)
                    /\ UNCHANGED <<sent, fetches>>
    /\ startTime' = clock
    /\ UNCHANGED <<config, net, clock>>

\* fetch resolves with a response; parseResponse reads its body
FetchResolves ==
    /\ pc = "fetching"
    /\ net.kind = "response"
    /\ \E r \in Responses : \E d \in {parseResponse(r)} : \E endTime \in clock..(clock + MaxElapsed) :
            /\ net' = [net EXCEPT !.response = r]
            /\ clock' = endTime
            /\ outcome' = ResponseOutcome(r, d, Timings(startTime, endTime))
    /\ pc' = "done"
    /\ UNCHANGED <<config, call, sent, fetches, startTime>>

\* fault variant of FetchRejects: with the retry option, a failed call is
\* issued a second time
FetchRejects_Retry ==
    /\ pc = "fetching"
    /\ net.kind = "failure"
    /\ IF call.options.retry /\ fetches < 2
       THEN /\ fetches' = fetches + 1
            /\ UNCHANGED <<pc, outcome>>
       ELSE /\ outcome' = Catch(Throw("TypeError", "fetch failed"))
            /\ pc' = "done"
            /\ fetches' = fetches
    /\ UNCHANGED <<config, call, net, sent, clock, startTime>>

\* fetch rejects: DNS, connection or TLS failure
FetchRejects ==
    /\ pc = "fetching"
    /\ net.kind = "failure"
    /\ outcome' = Catch(Throw("TypeError", "fetch failed"))
    /\ pc' = "done"
    /\ UNCHANGED <<config, call, net, sent, fetches, clock, startTime>>

\* the AbortSignal.timeout attached to the call fires: fetch rejects with the
\* platform's DOMException named TimeoutError
TimeoutFires ==
    /\ pc = "fetching"
    /\ sent.signal = "timeout"
    /\ outcome' = Catch(Throw("TimeoutError", "The operation timed out"))
    /\ pc' = "done"
    /\ UNCHANGED <<config, call, net, sent, fetches, clock, startTime>>

\* the caller aborts options.signal: fetch rejects with the signal's reason,
\* the DOMException named AbortError or the value given to abort(reason)
CallerAborts ==
    /\ pc = "fetching"
    /\ sent.signal = "caller"
    /\ \E thrown \in {Throw("AbortError", "The operation was aborted"),
                      ThrowValue("cancelled")} :
        outcome' = Catch(thrown)
    /\ pc' = "done"
    /\ UNCHANGED <<config, call, net, sent, fetches, clock, startTime>>

-----------------------------------------------------------------------------
(* src/bin/cli.ts: the action of the command '[method] [url] [...items]' *)

\* the flags the action reads: -j, -f, -m, and -t <timeout> (timeout 0: the
\* flag is not given, flags.timeout is undefined)
\* order: the content flags in the order of the command line, which the
\* flags object of the action does not keep
\* auth: the value of -a, the empty string when the flag is not given
NoFlags ==
    [json |-> FALSE, form |-> FALSE, multipart |-> FALSE, timeout |-> 0, order |-> <<>>,
     auth |-> <<>>]

\* new HttxClient({ ...config, verbose: flags.verbose,
\*   timeout: flags.timeout ? Number.parseInt(flags.timeout) : undefined }),
\* config being the loaded configuration without a configuration file
\* (defaultConfig: verbose only). The key timeout is always passed.
CliClient(f) ==
    Constructor([defaultHeaders |-> Absent(<<>>), baseUrl |-> Absent(<<>>),
                 timeout |-> Given(f.timeout)])

\* const options = { ...parsedArgs.options, json: flags.json ||
\* parsedArgs.options.json, form: flags.form, multipart: flags.multipart, .. }
CliOptions(o, f) ==
    [method |-> o.method, headers |-> Given(o.headers), query |-> Given(o.query),
     body |-> o.body, json |-> (f.json \/ o.json), form |-> f.form,
     multipart |-> f.multipart, timeout |-> 0, signal |-> FALSE, retry |-> FALSE]

\* the character code of a character of the model's alphabet
CharCode(c) ==
    IF \E i \in 1..26 : LowerLetters[i] = c
    THEN 96 + (CHOOSE i \in 1..26 : LowerLetters[i] = c)
    ELSE IF \E i \in 1..26 : UpperLetters[i] = c
    THEN 64 + (CHOOSE i \in 1..26 : UpperLetters[i] = c)
    ELSE IF c \in Digits THEN 48 + DigitVal(c)
    ELSE IF c = ":" THEN 58
    ELSE IF c = "-" THEN 45
    ELSE IF c = "/" THEN 47
    ELSE IF c = "=" THEN 61
    ELSE IF c = "@" THEN 64
    ELSE 32

Base64Digits ==
    UpperLetters \o LowerLetters
    \o <<"0", "1", "2", "3", "4", "5", "6", "7", "8", "9", "+", "/">>

\* the base64 text of a sequence of bytes: three bytes give four digits,
\* the last group is padded with '='
RECURSIVE Base64(_)
Base64(b) ==
    IF b = <<>> THEN <<>>
    ELSE IF Len(b) = 1
    THEN <<Base64Digits[(b[1] \div 4) + 1], Base64Digits[((b[1] % 4) * 16) + 1], "=", "=">>
    ELSE IF Len(b) = 2
    THEN <<Base64Digits[(b[1] \div 4) + 1],
           Base64Digits[((b[1] % 4) * 16 + (b[2] \div 16)) + 1],
           Base64Digits[((b[2] % 16) * 4) + 1], "=">>
    ELSE <<Base64Digits[(b[1] \div 4) + 1],
           Base64Digits[((b[1] % 4) * 16 + (b[2] \div 16)) + 1],
           Base64Digits[((b[2] % 16) * 4 + (b[3] \div 64)) + 1],
           Base64Digits[(b[3] % 64) + 1]>>
         \o Base64(SubSeq(b, 4, Len(b)))

\* Buffer.from(s).toString('base64')
ToBase64(s) == Base64([i \in 1..Len(s) |-> CharCode(s[i])])

\* String.prototype.split(':')
RECURSIVE SplitColon(_)
SplitColon(s) ==
    IF IndexFrom(s, <<":">>, 1) = 0 THEN <<s>>
    ELSE <<SubSeq(s, 1, IndexFrom(s, <<":">>, 1) - 1)>>
         \o SplitColon(SubSeq(s, IndexFrom(s, <<":">>, 1) + 1, Len(s)))

Authorization == <<"A", "u", "t", "h", "o", "r", "i", "z", "a", "t", "i", "o", "n">>
Basic == <<"B", "a", "s", "i", "c", " ">>

\* `Basic ${Buffer.from(`${username}:${password || ''}`).toString('base64')}`,
\* with [username, password] = flags.auth.split(':')
BasicAuth(parts) ==
    Basic \o ToBase64(parts[1] \o <<":">> \o (IF Len(parts) >= 2 THEN parts[2] ELSE <<>>))

\* if (flags.auth) options.headers = { ...options.headers, Authorization: .. }
WithAuth(o, f) ==
    IF f.auth = <<>> THEN o
    ELSE [o EXCEPT !.headers =
            Given(ObjSet(o.headers.v, Authorization, StrVal(BasicAuth(SplitColon(f.auth)))))]

\* the options the action hands to client.request
CliCallOptions(o, f) == WithAuth(CliOptions(o, f), f)

Running == [exited |-> FALSE, code |-> 0, stderr |-> NoError]

\* console.error('Error:', message); process.exit(code)
Exit(code, message) == [exited |-> TRUE, code |-> code, stderr |-> message]

\* result.match(response => .. process.exit(0), error => .. process.exit(1))
ResultMatch(result) ==
    IF result.tag = "Ok" THEN Exit(0, NoError)
    ELSE Exit(1, [message |-> result.error.message, url |-> <<>>])

\* ---- the invocations the action is run on ----

TokBareWord == <<"n", "o", "-", "u">>

CliMethodTokens == {TokPut}
CliUrlTokens == {TokHttpUrl, TokBareWord, TokPortPath}
TokAuthItem ==
    <<"a", "u", "t", "h", "o", "r", "i", "z", "a", "t", "i", "o", "n", ":", "x">>
CliItemTokens == {TokData, TokHeader, TokFileA, TokFileB, TokAuthItem}

CliTokensAt(i, u) ==
    IF i = 0 THEN CliMethodTokens \cup CliUrlTokens
    ELSE IF i = 1 /\ u = <<>> THEN CliUrlTokens
    ELSE CliItemTokens

\* no content flag or one of -j, -f, -m; with and without -t
\* the flags object of a command line with the content flags of order
ModeFlags(order) ==
    [NoFlags EXCEPT !.json = \E i \in 1..Len(order) : order[i] = "json",
                    !.form = \E i \in 1..Len(order) : order[i] = "form",
                    !.multipart = \E i \in 1..Len(order) : order[i] = "multipart",
                    !.order = order]

\* values of -a: user:password, and a password that holds a colon
AuthValues == {<<"u", ":", "p">>, <<"u", ":", "p", ":", "q">>}

\* two content flags, in both orders
TwoFlagOrders ==
    {<<"json", "form">>, <<"form", "json">>, <<"form", "multipart">>, <<"multipart", "form">>}

FlagSets ==
    {[ModeFlags(o) EXCEPT !.timeout = t] :
        o \in {<<>>, <<"json">>, <<"form">>, <<"multipart">>}, t \in {0, ShortTimeout}}
    \cup {ModeFlags(o) : o \in TwoFlagOrders}
    \cup {[NoFlags EXCEPT !.auth = a] : a \in AuthValues}

InitCli ==
    /\ flags = NoFlags
    /\ process = Running

\* parseCliArgs([method, url, ...items].filter(Boolean)): one iteration of
\* its loop
CliParseArg ==
    /\ pstate = "loop"
    /\ Len(args) < MaxArgs
    /\ \E arg \in CliTokensAt(Len(args), url) : LoopBody(arg)
    /\ UNCHANGED <<pstate, perror>>

\* request(url, options) has run up to the await of fetch, or to its catch
\* clause: r is what the try block built
StartRequest(c, r) ==
    /\ call' = c
    /\ IF r.ok
       THEN /\ pc' = "fetching"
            /\ sent' = r.init
            /\ fetches' = fetches + 1
            /\ outcome' = outcome
       ELSE /\ pc' = "done"
            /\ outcome' = Catch(r.thrown)
            /\ UNCHANGED <<sent, fetches>>

\* parseCliArgs returned: the client is built, the flags are merged into the
\* options and client.request(parsedArgs.url, options) is called
CliRequest ==
    /\ pstate = "returned"
    /\ pc = "idle"
    /\ ~process.exited
    /\ \E f \in FlagSets :
        \E r \in {BuildRequest(CliClient(f), url, CliCallOptions(options, f))} :
            /\ flags' = f
            /\ config' = CliClient(f)
            /\ StartRequest([url |-> url, options |-> CliCallOptions(options, f)], r)
            /\ IF r.ok
               THEN net' \in [kind : {"response", "failure", "hang"}, response : {NoResponse}]
               ELSE net' = net
    /\ startTime' = clock
    /\ clock' = clock
    /\ process' = process

\* parseCliArgs threw: the catch clause of the action
CliCatch ==
    /\ pstate = "threw"
    /\ ~process.exited
    /\ process' = Exit(1, perror)
    /\ flags' = flags

\* the promise of request resolved: result.match
CliExit ==
    /\ pc = "done"
    /\ ~process.exited
    /\ process' = ResultMatch(outcome)
    /\ flags' = flags

-----------------------------------------------------------------------------
(* Two request calls in flight on one HttxClient (src/src/client.ts). Each   *)
(* call has its own locals (startTime, finalUrl, headers, body, the fetch    *)
(* promise); this.config and performance.now() are what the calls share.     *)

Callers == {"A", "B"}

\* a call that has not been made
IdleCall ==
    [call |-> [url |-> <<>>, options |-> CHOOSE o \in RequestOptionsSet : TRUE],
     net |-> [kind |-> "hang", response |-> NoResponse],
     pc |-> "idle", sent |-> NothingSent, fetches |-> 0, outcome |-> Pending,
     startTime |-> 0]

NoCallers == conc = [i \in Callers |-> IdleCall]

PlainOptions ==
    [method |-> <<"P", "O", "S", "T">>, headers |-> Absent(<<>>), query |-> Absent(<<>>),
     body |-> BodyUndefined, json |-> FALSE, form |-> FALSE, multipart |-> FALSE,
     timeout |-> 0, signal |-> FALSE, retry |-> FALSE]

\* the calls made concurrently: a plain one, a JSON one with a header of its
\* own, one with a timeout of its own, and a relative URL
ConcurrentCalls ==
    {[url |-> UrlAbsolute, options |-> PlainOptions],
     [url |-> UrlAbsolute,
      options |-> [PlainOptions EXCEPT !.json = TRUE,
                                       !.headers = Given(<< <<HeaderX, Three>> >>),
                                       !.body = BodyObject(<< <<<<"a">>, One>> >>)]],
     [url |-> UrlAbsolute, options |-> [PlainOptions EXCEPT !.timeout = ShortTimeout]],
     [url |-> UrlRelative, options |-> PlainOptions]}

\* the clients the calls are made on: without and with a base URL and default
\* headers, both without a timeout of their own
ConcurrentConfigs ==
    {Constructor(p) : p \in {q \in PartialConfigs :
                                /\ q.timeout = Given(0)
                                /\ q.baseUrl.given = q.defaultHeaders.given}}

InitConcurrent ==
    /\ config \in ConcurrentConfigs
    /\ call = [url |-> <<>>, options |-> CHOOSE o \in RequestOptionsSet : TRUE]
    /\ net = [kind |-> "hang", response |-> NoResponse]
    /\ pc = "idle"
    /\ sent = NothingSent
    /\ fetches = 0
    /\ outcome = Pending
    /\ clock = 0
    /\ startTime = 0
    /\ NoCallers

\* fault variant of ConfigAfter: buildHeaders writes the merged headers into
\* this.config.defaultHeaders instead of into a Headers object of its own
ConfigAfter_KeepsHeaders(cfg, r) ==
    IF r.ok
    THEN [cfg EXCEPT !.defaultHeaders =
            [n \in 1..Len(r.init.headers) |->
                <<r.init.headers[n][1], StrVal(r.init.headers[n][2])>>]]
    ELSE cfg

\* this.config once request has run its try block: request, buildUrl,
\* buildHeaders and buildBody read this.config and assign no field of it
ConfigAfter(cfg, r) == cfg

\* caller i calls request(url, options): the synchronous part, up to the await
\* of fetch or to the catch clause
ConcurrentRequest(i) ==
    /\ conc[i].pc = "idle"
    /\ \E c \in ConcurrentCalls : \E r \in {BuildRequest(config, c.url, c.options)} :
       \E k \in {"response", "failure", "hang"} :
            /\ conc' = [conc EXCEPT ![i] =
                    IF r.ok
                    THEN [@ EXCEPT !.call = c, !.pc = "fetching", !.sent = r.init,
                                   !.fetches = @ + 1,
                                   !.net = [kind |-> k, response |-> NoResponse],
                                   !.startTime = clock]
                    ELSE [@ EXCEPT !.call = c, !.pc = "done",
                                   !.outcome = Catch(r.thrown),
                                   !.startTime = clock]]
            /\ config' = ConfigAfter(config, r)
    /\ UNCHANGED clock

\* the fetch of caller i resolves with a response; parseResponse reads it
ConcurrentFetchResolves(i) ==
    /\ conc[i].pc = "fetching"
    /\ conc[i].net.kind = "response"
    /\ \E r \in Responses : \E d \in {parseResponse(r)} : \E endTime \in clock..(clock + MaxElapsed) :
            /\ conc' = [conc EXCEPT ![i] =
                    [@ EXCEPT !.net = [@ EXCEPT !.response = r],
                              !.outcome = ResponseOutcome(r, d, Timings(conc[i].startTime, endTime)),
                              !.pc = "done"]]
            /\ clock' = endTime
    /\ UNCHANGED config

\* the fetch of caller i rejects
ConcurrentFetchRejects(i) ==
    /\ conc[i].pc = "fetching"
    /\ conc[i].net.kind = "failure"
    /\ conc' = [conc EXCEPT ![i] =
            [@ EXCEPT !.outcome = Catch(Throw("TypeError", "fetch failed")),
                      !.pc = "done"]]
    /\ UNCHANGED <<config, clock>>

\* the AbortSignal.timeout of caller i fires
ConcurrentTimeoutFires(i) ==
    /\ conc[i].pc = "fetching"
    /\ conc[i].sent.signal = "timeout"
    /\ conc' = [conc EXCEPT ![i] =
            [@ EXCEPT !.outcome = Catch(Throw("TimeoutError", "The operation timed out")),
                      !.pc = "done"]]
    /\ UNCHANGED <<config, clock>>

ConcurrentIdle == <<call, net, pc, sent, fetches, outcome, startTime>>

-----------------------------------------------------------------------------
(* Specifications *)

\* parseCliArgs alone: the client is not used
IdleClient ==
    /\ config = Constructor([defaultHeaders |-> Absent(<<>>), baseUrl |-> Absent(<<>>),
                             timeout |-> Absent(0)])
    /\ call = [url |-> <<>>, options |-> CHOOSE o \in RequestOptionsSet : TRUE]
    /\ net = [kind |-> "hang", response |-> NoResponse]
    /\ pc = "idle"
    /\ sent = NothingSent
    /\ fetches = 0
    /\ outcome = Pending
    /\ clock = 0
    /\ startTime = 0

InitParse == InitParser /\ IdleClient /\ InitCli /\ NoCallers

NextParse ==
    \/ ParseArg /\ UNCHANGED cvars /\ UNCHANGED clivars /\ UNCHANGED conc
    \/ ParseEnd /\ UNCHANGED cvars /\ UNCHANGED clivars /\ UNCHANGED conc

SpecParse == InitParse /\ [][NextParse]_vars

\* HttxClient.request alone: the parser is not used
Init == InitParser /\ InitClient /\ InitCli /\ NoCallers

Next ==
    \/ Request /\ UNCHANGED pvars /\ UNCHANGED clivars /\ UNCHANGED conc
    \/ FetchResolves /\ UNCHANGED pvars /\ UNCHANGED clivars /\ UNCHANGED conc
    \/ FetchRejects /\ UNCHANGED pvars /\ UNCHANGED clivars /\ UNCHANGED conc
    \/ TimeoutFires /\ UNCHANGED pvars /\ UNCHANGED clivars /\ UNCHANGED conc
    \/ CallerAborts /\ UNCHANGED pvars /\ UNCHANGED clivars /\ UNCHANGED conc

Spec == Init /\ [][Next]_vars

\* one invocation of the httx command: parseCliArgs, then request, then exit
NextCli ==
    \/ CliParseArg /\ UNCHANGED cvars /\ UNCHANGED clivars /\ UNCHANGED conc
    \/ ParseEnd /\ UNCHANGED cvars /\ UNCHANGED clivars /\ UNCHANGED conc
    \/ CliRequest /\ UNCHANGED pvars /\ UNCHANGED conc
    \/ CliCatch /\ UNCHANGED pvars /\ UNCHANGED cvars /\ UNCHANGED conc
    \/ FetchResolves /\ UNCHANGED pvars /\ UNCHANGED clivars /\ UNCHANGED conc
    \/ FetchRejects /\ UNCHANGED pvars /\ UNCHANGED clivars /\ UNCHANGED conc
    \/ TimeoutFires /\ UNCHANGED pvars /\ UNCHANGED clivars /\ UNCHANGED conc
    \/ CliExit /\ UNCHANGED pvars /\ UNCHANGED cvars /\ UNCHANGED conc

SpecCli == InitParse /\ [][NextCli]_vars

\* two callers of request on one client, in every interleaving
InitConcurrentCalls == InitParser /\ InitConcurrent /\ InitCli

NextConcurrent ==
    \/ \E i \in Callers : ConcurrentRequest(i) /\ UNCHANGED <<pvars, clivars, ConcurrentIdle>>
    \/ \E i \in Callers : ConcurrentFetchResolves(i) /\ UNCHANGED <<pvars, clivars, ConcurrentIdle>>
    \/ \E i \in Callers : ConcurrentFetchRejects(i) /\ UNCHANGED <<pvars, clivars, ConcurrentIdle>>
    \/ \E i \in Callers : ConcurrentTimeoutFires(i) /\ UNCHANGED <<pvars, clivars, ConcurrentIdle>>

SpecConcurrent == InitConcurrentCalls /\ [][NextConcurrent]_vars

-----------------------------------------------------------------------------
(* Properties of parseCliArgs, checked under SpecParse *)

\* the tokens the loop treated as request items
IsItem(i) == kinds[i] \notin {"method", "url", "skipped"}

OpRawJson == <<":", "=">>
OpFile == <<"@">>
OpQuery == <<"=", "=">>
OpHeader == <<":">>
OpData == <<"=">>

\* the kind spec.md 4.1 gives a token: the first shape that matches in the
\* order k:=v, k@v, k==v, k:v, k=v
SpecKind(arg) ==
    CASE Match(arg, OpRawJson).matched -> "RAW_JSON"
      [] Match(arg, OpFile).matched -> "FILE_UPLOAD"
      [] Match(arg, OpQuery).matched -> "QUERY"
      [] Match(arg, OpHeader).matched -> "HEADER"
      [] Match(arg, OpData).matched -> "DATA"
      [] OTHER -> "unmatched"

\* the value spec.md gives the body field of a token k:=v
RawJsonValue(v) == IF JSONparse(v).ok THEN JSONparse(v).v ELSE StrVal(v)

\* C2: right after an item token k:=v is consumed, the body is an object
\* whose field k holds the JSON-parsed v (type preserved) when v is JSON,
\* and the literal string v otherwise.
C2_RawJsonFieldTyped ==
    \A i \in 1..Len(args) :
        (i = Len(args) /\ IsItem(i) /\ Match(args[i], OpRawJson).matched) =>
            /\ options.body.t = "object"
            /\ HasKey(options.body.f, trim(Match(args[i], OpRawJson).key))
            /\ ObjGet(options.body.f, trim(Match(args[i], OpRawJson).key))
                 = RawJsonValue(trim(Match(args[i], OpRawJson).value))

\* C3: the kind the loop assigns to an item token is the kind of the first
\* shape that matches in the order k:=v, k@v, k==v, k:v, k=v, else unmatched.
C3_MultiCharOperatorsFirst ==
    \A i \in 1..Len(args) : IsItem(i) => kinds[i] = SpecKind(args[i])

\* the URL the CLI requests for the parsed arguments: buildUrl of a client
\* without base URL, on the returned url and options.query
RequestedUrl ==
    buildUrl(Constructor([defaultHeaders |-> Absent(<<>>), baseUrl |-> Absent(<<>>),
                          timeout |-> Absent(0)]),
             url, Given(options.query))

\* the query string of s holds the pair k=v
HasQueryPair(s, k, v) ==
    \E i \in 2..Len(s) :
        /\ HasAt(s, i, FormEncode(k) \o <<"=">> \o FormEncode(v))
        /\ s[i - 1] \in {"?", "&"}
        /\ \/ i + Len(FormEncode(k)) + Len(FormEncode(v)) = Len(s)
           \/ s[i + Len(FormEncode(k)) + Len(FormEncode(v)) + 1] = "&"

\* C4: when parseCliArgs has returned, the requested URL holds the query
\* pair k=v of every item token k==v, so that k==v1 k==v2 leaves both.
C4_QueryItemsInUrl ==
    pstate = "returned" =>
        \A i \in 1..Len(args) :
            (IsItem(i) /\ Match(args[i], OpQuery).matched) =>
                /\ RequestedUrl.ok
                /\ HasQueryPair(RequestedUrl.s, trim(Match(args[i], OpQuery).key),
                                trim(Match(args[i], OpQuery).value))

\* the item tokens of shape k@path, in token order
RECURSIVE FileFields(_)
FileFields(i) ==
    IF i = 0 THEN <<>>
    ELSE IF IsItem(i) /\ Match(args[i], OpFile).matched
    THEN Append(FileFields(i - 1),
                <<trim(Match(args[i], OpFile).key), StrVal(trim(Match(args[i], OpFile).value))>>)
    ELSE FileFields(i - 1)

RECURSIVE WithKey(_, _)
\* the entries of f under key k, in order
WithKey(f, k) ==
    IF f = <<>> THEN <<>>
    ELSE IF f[1][1] = k THEN <<f[1]>> \o WithKey(Tail(f), k)
    ELSE WithKey(Tail(f), k)

RECURSIVE IsSubsequence(_, _)
\* a is b with some entries left out
IsSubsequence(a, b) ==
    IF a = <<>> THEN TRUE
    ELSE IF b = <<>> THEN FALSE
    ELSE IF a[1] = b[1] THEN IsSubsequence(Tail(a), Tail(b))
    ELSE IsSubsequence(a, Tail(b))

\* the keys of the item tokens that match a shape other than k@path
OtherItemKeys ==
    {trim(SubSeq(args[i], 1, KeyLen(args[i]))) :
        i \in {j \in 1..Len(args) : IsItem(j) /\ ~Match(args[j], OpFile).matched}}

\* C7: once an item token k@path is consumed, the content mode is multipart
\* and the body is a multipart field set that holds the fields of all the
\* k@path tokens in token order; under a key no other item uses, the fields
\* are exactly those of the tokens with that key, one per token.
C7_FileFieldsAccumulate ==
    FileFields(Len(args)) # <<>> =>
        /\ options.multipart
        /\ options.body.t = "FormData"
        /\ IsSubsequence(FileFields(Len(args)), options.body.f)
        /\ \A n \in 1..Len(FileFields(Len(args))) :
              FileFields(Len(args))[n][1] \notin OtherItemKeys =>
                WithKey(options.body.f, FileFields(Len(args))[n][1])
                  = WithKey(FileFields(Len(args)), FileFields(Len(args))[n][1])

\* p@a then p@b were consumed and the body holds the two fields in that order
C7_Witness ==
    /\ Len(args) = 4
    /\ args[3] = TokFileA
    /\ args[4] = TokFileB
    /\ options.multipart
    /\ options.body = BodyFormData(<< <<<<"p">>, StrVal(<<"a">>)>>,
                                     <<<<"p">>, StrVal(<<"b">>)>> >>)

\* the method names of spec.md 3, and their lower-case spellings
MethodNames ==
    { <<"G", "E", "T">>, <<"P", "O", "S", "T">>, <<"P", "U", "T">>,
      <<"D", "E", "L", "E", "T", "E">>, <<"P", "A", "T", "C", "H">>,
      <<"H", "E", "A", "D">>, <<"O", "P", "T", "I", "O", "N", "S">> }

\* the method name that equals s case-insensitively
NamedMethod(s) == CHOOSE m \in MethodNames : toLowerCase(m) = toLowerCase(s)
NamesMethod(s) == \E m \in MethodNames : toLowerCase(m) = toLowerCase(s)

\* the URL a token stands for: the token, with http:// before it when it
\* has no scheme
IsUrlOf(u, tok) == u = tok \/ u = <<"h", "t", "t", "p", ":", "/", "/">> \o tok

\* C9: in every result, a first token that names a method case-insensitively
\* gives that method in upper case and the next token as URL; any other
\* first token is the URL and the method is GET; method = options.method.
C9_MethodThenUrl ==
    pstate = "returned" =>
        /\ method = options.method
        /\ IF NamesMethod(args[1])
           THEN /\ method = NamedMethod(args[1])
                /\ Len(args) >= 2
                /\ IsUrlOf(url, args[2])
           ELSE /\ method = <<"G", "E", "T">>
                /\ IsUrlOf(url, args[1])

\* "Put <url>" has returned with method PUT
C9_Witness ==
    /\ pstate = "returned"
    /\ args[1] = TokPut
    /\ method = <<"P", "U", "T">>
    /\ url = TokHttpUrl

\* C10: the URL token :PORT/path gives a result whose url is
\* http://localhost:PORT/path.
C10_LocalhostShorthand ==
    (pstate # "loop" /\ Len(args) >= 2 /\ kinds[1] = "method" /\ args[2] = TokPortPath) =>
        /\ pstate = "returned"
        /\ url = <<"h", "t", "t", "p", ":", "/", "/", "l", "o", "c", "a", "l", "h", "o", "s", "t", ":", "3", "/", "a">>

\* the argument list holds no token for the URL: it is empty, or it is a
\* method name alone
NoUrlToken == args = <<>> \/ (Len(args) = 1 /\ NamesMethod(args[1]))

\* C12: parseCliArgs ends with the missing-URL error exactly when the
\* argument list holds no URL token (it is empty, or a method alone), and a
\* result it returns never has an empty url.
C12_MissingUrlError ==
    /\ pstate = "returned" => url # <<>>
    /\ pstate # "loop" =>
          (NoUrlToken <=> (pstate = "threw" /\ perror.message = "No URL provided"))

\* 'get' alone ended with the missing-URL error
C12_Witness ==
    /\ pstate = "threw"
    /\ args = <<TokGet>>
    /\ url = <<>>
    /\ perror.message = "No URL provided"

\* the first segment of a bracketed key: user of user[name]
HeadSegment(k) == SubSeq(k, 1, IndexFrom(k, <<"[">>, 1) - 1)

\* C13: right after a data token whose key has brackets, k[s]=v, is
\* consumed, the body is an object whose field k is a nested mapping, and
\* the body has no field named by the whole bracketed key.
C13_BracketKeysNest ==
    \A i \in 1..Len(args) :
        (/\ i = Len(args)
         /\ IsItem(i)
         /\ Match(args[i], OpData).matched
         /\ includes(Match(args[i], OpData).key, <<"[">>)) =>
            /\ options.body.t = "object"
            /\ HasKey(options.body.f, HeadSegment(trim(Match(args[i], OpData).key)))
            /\ ObjGet(options.body.f, HeadSegment(trim(Match(args[i], OpData).key))).t = "object"
            /\ ~HasKey(options.body.f, trim(Match(args[i], OpData).key))

\* the fields of the item tokens k=v and k@path, in token order
RECURSIVE DataAndFileFields(_)
DataAndFileFields(i) ==
    IF i = 0 THEN <<>>
    ELSE IF IsItem(i) /\ SpecKind(args[i]) = "DATA"
    THEN Append(DataAndFileFields(i - 1),
                <<trim(Match(args[i], OpData).key), StrVal(trim(Match(args[i], OpData).value))>>)
    ELSE IF IsItem(i) /\ SpecKind(args[i]) = "FILE_UPLOAD"
    THEN Append(DataAndFileFields(i - 1),
                <<trim(Match(args[i], OpFile).key), StrVal(trim(Match(args[i], OpFile).value))>>)
    ELSE DataAndFileFields(i - 1)

\* C26: the body returned for an item list with a file-upload token is a
\* multipart field set that holds the field of every k=v and every k@path
\* token, in token order, wherever the k=v tokens stand.
C26_DataFieldsKeptWithFiles ==
    (pstate = "returned" /\ FileFields(Len(args)) # <<>>) =>
        /\ options.body.t = "FormData"
        /\ IsSubsequence(DataAndFileFields(Len(args)), options.body.f)

-----------------------------------------------------------------------------
(* Properties of HttxClient.request, checked under Spec *)

\* C1: request never throws and never rejects; whatever the url, the options
\* and the network do, the promise settles only with an Outcome in which
\* exactly one of Ok(response) and Err(error) is populated.
C1_AlwaysAnOutcome ==
    /\ outcome.tag \in {"pending", "Ok", "Err"}
    /\ (pc = "done") = (outcome.tag # "pending")
    /\ outcome.tag = "Ok" => (outcome.value # NoValue /\ outcome.error = NoErrorValue)
    /\ outcome.tag = "Err" => (outcome.value = NoValue /\ outcome.error # NoErrorValue)

\* the caller aborted with a reason that is no Error, and request resolved
\* to Err
C1_Witness ==
    /\ pc = "done"
    /\ fetches = 1
    /\ call.options.signal
    /\ outcome.tag = "Err"
    /\ outcome.error = ErrorValue("Error", "cancelled")

\* the headers the caller gave, as Headers
ExplicitHeaders ==
    IF call.options.headers.given THEN NewHeaders(call.options.headers.v).h ELSE <<>>

\* the headers the content mode derives: Content-Type and Accept of json,
\* Content-Type of form
ModeDerivedHeaders ==
    IF call.options.json
    THEN << <<toLowerCase(ContentType), ApplicationJson>>,
            <<toLowerCase(Accept), ApplicationJson>> >>
    ELSE IF call.options.form THEN << <<toLowerCase(ContentType), FormUrlencoded>> >>
    ELSE <<>>

DefaultHeaders == NewHeaders(config.defaultHeaders).h

HeaderNames == {toLowerCase(ContentType), toLowerCase(Accept), toLowerCase(HeaderX)}

\* C5: in the headers of the request that is sent, an explicit header wins
\* over a mode-derived header of the same name, which wins over a default
\* header of that name.
C5_ExplicitOverModeOverDefault ==
    fetches = 1 =>
        \A x \in HeaderNames :
            IF HasKey(ExplicitHeaders, x)
            THEN HasKey(sent.headers, x) /\ ObjGet(sent.headers, x) = ObjGet(ExplicitHeaders, x)
            ELSE IF HasKey(ModeDerivedHeaders, x)
            THEN HasKey(sent.headers, x) /\ ObjGet(sent.headers, x) = ObjGet(ModeDerivedHeaders, x)
            ELSE HasKey(DefaultHeaders, x) =>
                    (call.options.multipart /\ x = toLowerCase(ContentType))
                    \/ (HasKey(sent.headers, x)
                        /\ ObjGet(sent.headers, x) = ObjGet(DefaultHeaders, x))

\* C6: a request without caller signal whose network call never completes
\* and whose effective timeout is T > 0 settles only with Err(TimeoutError)
\* carrying timeout = T, the method and the URL.
C6_TimeoutErrorCarriesT ==
    (/\ pc = "done"
     /\ fetches = 1
     /\ net.kind = "hang"
     /\ ~call.options.signal
     /\ EffectiveTimeout(config, call.options) > 0) =>
        /\ outcome.tag = "Err"
        /\ outcome.error.name = "TimeoutError"
        /\ outcome.error.timeout = EffectiveTimeout(config, call.options)
        /\ outcome.error.method = call.options.method
        /\ outcome.error.url = sent.url

\* request has settled after the network delivered a response
Responded == pc = "done" /\ net.response # NoResponse

BodyReadable == net.response.ctype = "application/json" => net.response.wellFormed

RawBodyCall ==
    /\ pc # "idle"
    /\ ~call.options.json /\ ~call.options.form /\ ~call.options.multipart
    /\ ~Falsy(call.options.body)
    /\ buildUrl(config, call.url, call.options.query).ok
    /\ buildHeaders(config, call.options).ok

\* C18: with no content mode, a body that is a string or a binary payload
\* is handed to the network call unmodified, and a body of any other shape
\* ends the request with Err(invalid body type) before the network call.
C18_RawBodyPassThrough ==
    RawBodyCall =>
        IF call.options.body.t \in {"string", "Blob"}
        THEN fetches = 1 /\ sent.body = call.options.body
        ELSE /\ fetches = 0
             /\ outcome.tag = "Err"
             /\ outcome.error.message = "Invalid body type"

C21_NullHeaderRemoves ==
    (fetches = 1 /\ call.options.headers.given) =>
        \A i \in 1..Len(call.options.headers.v) :
            call.options.headers.v[i][2] = NullVal =>
                ~HeadersHas(sent.headers, call.options.headers.v[i][1])

\* C23: a multipart field set is sent as it is, never serialized as JSON,
\* and never under the Content-Type of the json or the form mode, whatever
\* the json, form and multipart flags of the call.
C23_OneModeGoverns ==
    (fetches = 1 /\ call.options.body.t = "FormData") =>
        /\ sent.body = call.options.body
        /\ HeadersHas(sent.headers, ContentType) =>
              HeadersGet(sent.headers, ContentType) \notin {ApplicationJson, FormUrlencoded}

\* C24: every Ok envelope has timings.end >= timings.start and
\* timings.duration = timings.end - timings.start >= 0.
C24_TimingsOrdered ==
    outcome.tag = "Ok" =>
        /\ outcome.value.timings.end >= outcome.value.timings.start
        /\ outcome.value.timings.duration
             = outcome.value.timings.end - outcome.value.timings.start
        /\ outcome.value.timings.duration >= 0

\* an Ok envelope whose response took time: end is after start
C24_Witness ==
    /\ outcome.tag = "Ok"
    /\ outcome.value.timings.end > outcome.value.timings.start
    /\ outcome.value.timings.duration = MaxElapsed

\* the request has a positive timeout of its own or of the client
HasPositiveTimeout == call.options.timeout > 0 \/ config.timeout > 0

\* C25: the signal attached to the network call is the caller's when one is
\* given, otherwise the timeout signal when the effective timeout is
\* positive, otherwise one that never fires; a request that carries a
\* caller's signal never ends by the timeout.
C25_OneSignalSource ==
    /\ fetches = 1 =>
          sent.signal = (IF call.options.signal THEN "caller"
                         ELSE IF HasPositiveTimeout THEN "timeout"
                         ELSE "never")
    /\ (pc = "done" /\ call.options.signal) => outcome.error.name # "TimeoutError"

\* a call with its own timeout and a caller's signal: the caller's signal
\* was attached and the caller's abort ended the request
C25_Witness ==
    /\ pc = "done"
    /\ call.options.signal
    /\ call.options.timeout = ShortTimeout
    /\ sent.signal = "caller"
    /\ outcome.error.name = "AbortError"

\* URL resolution, header merge and body encoding of the call all succeed
AllBuilt ==
    /\ buildUrl(config, call.url, call.options.query).ok
    /\ buildHeaders(config, call.options).ok
    /\ buildBody(call.options).ok

RECURSIVE StripTrailingSlashes(_)
StripTrailingSlashes(b) ==
    IF b # <<>> /\ b[Len(b)] = "/" THEN StripTrailingSlashes(SubSeq(b, 1, Len(b) - 1))
    ELSE b
JoinOneSlash(b, p) ==
    StripTrailingSlashes(b) \o <<"/">> \o SubSeq(p, LeadingSlashes(p) + 1, Len(p))

\* C14: a request that is sent by a client with base URL b for a relative
\* path p, with or without leading slash, goes to b joined to p by exactly
\* one slash, the whole path of b kept.
C14_BaseJoinedToPath ==
    (/\ fetches = 1
     /\ config.baseUrl # <<>>
     /\ SchemeLen(call.url) = 0) =>
        sent.url = JoinOneSlash(config.baseUrl, call.url)

-----------------------------------------------------------------------------
(* Properties of the httx command, checked under SpecCli *)

\* the token parseCliArgs took as the URL
HasUrlToken == \E i \in 1..Len(args) : kinds[i] = "url"
UrlToken == args[CHOOSE i \in 1..Len(args) : kinds[i] = "url"]

\* a bare word: letters, digits and hyphens only, as not-a-url
IsBareWord(tok) ==
    /\ tok # <<>>
    /\ \A i \in 1..Len(tok) : tok[i] \in Alpha \cup Digits \cup {"-"}

\* C11: when the command has exited and the URL token, after scheme
\* inference, is no valid URL or the token is a bare word, parseCliArgs threw
\* the invalid-URL error carrying the inferred string, the message written
\* holds 'Invalid URL' and the exit code is not 0.
C11_InvalidUrlRejected ==
    (/\ process.exited
     /\ HasUrlToken
     /\ (~NewURL(InferScheme(UrlToken)).ok \/ IsBareWord(UrlToken))) =>
        /\ pstate = "threw"
        /\ perror = [message |-> "Invalid URL: ", url |-> InferScheme(UrlToken)]
        /\ process.stderr.message = "Invalid URL: "
        /\ process.code # 0

\* the exit code of the documented table: 4 when the arguments are invalid
\* (parseCliArgs threw), 0 for Ok, 3 for a timeout, 2 when the connection
\* failed, 1 for any other error of the request
TableExitCode ==
    IF pstate = "threw" THEN 4
    ELSE IF outcome.tag = "Ok" THEN 0
    ELSE IF outcome.error.name = "TimeoutError" THEN 3
    ELSE IF outcome.error.message = "fetch failed" THEN 2
    ELSE 1

\* C15: when the command has exited, its exit code is the one of the table:
\* 0 success, 1 request error, 2 connection error, 3 timeout, 4 invalid
\* arguments.
C15_ExitCodeTable == process.exited => process.code = TableExitCode

\* C16: the network call of a request without own timeout carries a timeout
\* signal with a positive delay: the value of -t when the flag is given, the
\* default of 30000 ms when it is not.
C16_DefaultTimeoutArmed ==
    (fetches = 1 /\ call.options.timeout = 0) =>
        /\ sent.signal = "timeout"
        /\ sent.timeout > 0
        /\ sent.timeout = (IF flags.timeout # 0 THEN flags.timeout ELSE DefaultTimeout)

\* the invocation has data items k=v, and headers at most besides them, and
\* no content-mode flag
PlainDataInvocation ==
    /\ ~flags.json /\ ~flags.form /\ ~flags.multipart
    /\ \E i \in 1..Len(args) : IsItem(i) /\ SpecKind(args[i]) = "DATA"
    /\ \A i \in 1..Len(args) : IsItem(i) => SpecKind(args[i]) \in {"DATA", "HEADER"}

\* C17: the request of an invocation with plain data items and no content
\* flag is sent with a body that carries the data fields, and it resolves
\* to Ok when the server answers with a readable response.
C17_PlainDataIsSent ==
    (pc = "done" /\ PlainDataInvocation) =>
        /\ fetches = 1
        /\ sent.body.t # "undefined"
        /\ outcome.error.message # "Invalid body type"
        /\ (Responded /\ BodyReadable) => outcome.tag = "Ok"

\* the paths that name a readable file on the machine the command runs on
ReadableFiles == {<<"a">>}

\* an item token k@path whose path names no readable file
HasUnreadableFileField ==
    \E i \in 1..Len(args) :
        /\ IsItem(i)
        /\ Match(args[i], OpFile).matched
        /\ trim(Match(args[i], OpFile).value) \notin ReadableFiles

\* C19: the request of an invocation with a file field whose path cannot be
\* read issues no network call and resolves to Err(file access error).
C19_UnreadableFileFailsFast ==
    (pc # "idle" /\ HasUnreadableFileField) =>
        /\ fetches = 0
        /\ outcome.tag = "Err"
        /\ outcome.error.name = "FileAccessError"

\* the content mode the headers of the sent request show: the Content-Type
\* of json, the one of form, or none of the two
SentMode ==
    IF ~HeadersHas(sent.headers, ContentType) THEN "multipart"
    ELSE IF HeadersGet(sent.headers, ContentType) = ApplicationJson THEN "json"
    ELSE IF HeadersGet(sent.headers, ContentType) = FormUrlencoded THEN "form"
    ELSE "multipart"

\* C22: the request of a command line with more than one content flag is
\* sent in the content mode of the last of them.
C22_LastModeFlagWins ==
    (fetches = 1 /\ Len(flags.order) >= 2) => SentMode = flags.order[Len(flags.order)]

\* the content mode by priority: json before form before multipart
PriorityMode ==
    IF flags.json THEN "json" ELSE IF flags.form THEN "form" ELSE "multipart"

\* C22 amended: the request of a command line with more than one content
\* flag is sent in the mode that comes first in the priority json, form,
\* multipart, whatever the order of the flags.
C22_PriorityModeWins ==
    (fetches = 1 /\ Len(flags.order) >= 2) => SentMode = PriorityMode

\* -j -f was given, json first, and the request went out as JSON
C22_Witness ==
    /\ fetches = 1
    /\ flags.order = <<"json", "form">>
    /\ SentMode = "json"

\* C27: the options handed to request keep the content mode parseCliArgs
\* derived: multipart stays true after a file-upload item, json stays true
\* when the parser set it, whatever the flags.
C27_ParsedModeKept ==
    pc # "idle" =>
        /\ options.multipart => call.options.multipart
        /\ options.json => call.options.json

\* the credentials of a value of -a: the value itself when it has a colon
\* (user, colon, all that follows), the value and a colon when it has none
Credentials(a) == IF includes(a, <<":">>) THEN a ELSE a \o <<":">>

\* C30: the request of a command line with -a carries the one header
\* Authorization: Basic base64(user:password), the password being all that
\* follows the first colon of the value, also when an item gave an
\* Authorization header.
C30_BasicAuthWholePassword ==
    (fetches = 1 /\ flags.auth # <<>>) =>
        /\ HeadersHas(sent.headers, Authorization)
        /\ HeadersGet(sent.headers, Authorization) = Basic \o ToBase64(Credentials(flags.auth))


-----------------------------------------------------------------------------
(* Claims on SpecConcurrent *)

\* the Outcomes the call of entry e can settle with when it is the only call
\* on the client, under the network behaviour e.net; the timings are those
\* the call measured
AloneOutcomes(e) ==
    (IF e.net.kind = "response" /\ e.net.response # NoResponse
     THEN {ResponseOutcome(e.net.response, parseResponse(e.net.response),
                           e.outcome.value.timings)}
     ELSE {})
    \cup (IF e.net.kind = "failure"
          THEN {Catch(Throw("TypeError", "fetch failed"))} ELSE {})
    \cup (IF e.sent.signal = "timeout"
          THEN {Catch(Throw("TimeoutError", "The operation timed out"))} ELSE {})

\* entry e is what its call does alone: r is what request builds for the call
\* from the client's configuration
AsAlone(e, r) ==
    IF r.ok
    THEN /\ e.sent = r.init
         /\ e.fetches = 1
         /\ e.pc = "done" => e.outcome \in AloneOutcomes(e)
    ELSE /\ e.pc = "done"
         /\ e.fetches = 0
         /\ e.outcome = Catch(r.thrown)

\* C28: request changes neither the client's configuration nor the options
\* object it is given, and under every interleaving of two calls on one client
\* each call sends what it sends alone and settles with the Outcome it settles
\* with alone against the same network behaviour
C28_ConcurrentCallsIndependent ==
    /\ [](\A i \in Callers :
            conc[i].pc # "idle" =>
                AsAlone(conc[i], BuildRequest(config, conc[i].call.url, conc[i].call.options)))
    /\ [][/\ config' = config
          /\ \A i \in Callers : conc[i].pc # "idle" => conc'[i].call = conc[i].call]_vars

\* both calls were in flight together, B was started after A and settled
\* before it, and the two settled differently
C28_Witness ==
    /\ conc["A"].pc = "done" /\ conc["B"].pc = "done"
    /\ conc["A"].call # conc["B"].call
    /\ conc["A"].outcome.tag = "Ok"
    /\ conc["B"].outcome.tag = "Err"
    /\ conc["B"].fetches = 1
    /\ conc["A"].outcome.value.timings.end > conc["B"].startTime

====
